---- MODULE Spec2Model ----
(***************************************************************************)
(* Admission control and generation sessions of docker/server.py.          *)
(*                                                                         *)
(* The server is a single-threaded asyncio program: a task runs without    *)
(* interruption from one suspension point to the next.  Each action below  *)
(* is one such run of one session (one RPC handler task).  The suspension  *)
(* points of a session are                                                 *)
(*   "waiting"     inside admission_sem.acquire()            (line 78)     *)
(*   "running"     inside engine.generate's __anext__   (lines 143, 179)   *)
(*   "yielding"    at the yield of a delta Token             (line 191)    *)
(*   "last_yield"  at the yield of the end marker            (line 193)    *)
(* admission_queue is unbounded, so `await admission_queue.put(1)` never   *)
(* suspends.                                                               *)
(*                                                                         *)
(* admission_sem is an asyncio.Semaphore (CPython 3.11 semantics):         *)
(* release() hands the permit to the first waiter whose future is not      *)
(* done, and that waiter resumes in a later step.                          *)
(*                                                                         *)
(* A caller cancellation cancels the handler task.  A task suspended in an *)
(* await of the handler gets CancelledError at that await.  StreamGenerate *)
(* is an async generator: while it is suspended at a yield, the cancelled  *)
(* task is the transport loop that iterates it, so nothing is raised       *)
(* inside the generator; its finally blocks run when the event loop        *)
(* finalizes the abandoned generator (aclose, GeneratorExit at the yield). *)
(***************************************************************************)
EXTENDS Integers, Sequences, FiniteSets, TLC

\* ---- bounds of the model ----
NumSessions == 3
MaxCap == 2
MaxSnaps == 2
MaxText == 1
\* largest value of the clock
MaxClock == 2
\* longest text in an engine output sequence that is fixed in advance
MaxScriptText == 2
\* largest number of waiting requests the engine reports
MaxBacklog == 1
MaxNewTokens == 1
MaxTenths == 1

Sessions == 1..NumSessions

\* out.outputs[0].text values the engine may report: "", "a", "aa", ...
RECURSIVE Repeat(_, _)
Repeat(c, n) == IF n = 0 THEN <<>> ELSE <<c>> \o Repeat(c, n - 1)

Texts == {Repeat("a", n) : n \in 0..MaxText}

\* an engine snapshot: outputs = FALSE is `not out.outputs`
NoOutputs == [outputs |-> FALSE, text |-> <<>>]

Snapshots == {NoOutputs} \cup {[outputs |-> TRUE, text |-> t] : t \in Texts}

VARIABLES
    MAX_INFLIGHT,     \* configured capacity, read once at startup
    sem_value,        \* admission_sem._value
    sem_waiters,      \* admission_sem._waiters: sessions in arrival order
    sem_woken,        \* waiters whose future has its result set
    admission_queue,  \* admission_queue.qsize()
    QUEUE_LENGTH,     \* gauge llm_request_queue_length
    INFLIGHT,         \* gauge llm_requests_in_flight
    REQ_TOTAL,        \* counter llm_requests_total
    REQ_FAILED,       \* counter llm_requests_failed_total
    pc,               \* where each session is suspended, or how it ended
    kind,             \* "Generate" or "StreamGenerate"
    full_text,        \* local full_text
    last_len,         \* local last_len (StreamGenerate)
    first_token,      \* local first_token / first_token_sent
    nsnaps,           \* snapshots the engine has produced for the session
    emitted,          \* Tokens yielded by StreamGenerate, in order
    reply,            \* GenerateReply.text, or <<"none">> before the return
    status,           \* how the RPC ended for the caller
    acquires,         \* times the session returned from admission_sem.acquire()
    releases,         \* times the session called admission_sem.release()
    script,           \* the engine's snapshot sequence for the prompt, when fixed
    now,              \* the clock read by time.time()
    t0,               \* local t0
    first_at,         \* clock value read at TTFT_HIST.observe(), -1 before it
    TTFT_HIST,        \* number of observations of histogram llm_ttft_ms
    request,          \* the GenerateRequest of each call (prompt left out)
    params,           \* local params: <<>> or <<the SamplingParams>>
    mon_pc,           \* where monitor_vllm_internal_queue is suspended
    mon_last,         \* how its last status query ended
    VLLM_INTERNAL_WAITING   \* gauge vllm_internal_waiting_requests, -1 unset

vars == <<MAX_INFLIGHT, sem_value, sem_waiters, sem_woken, admission_queue,
          QUEUE_LENGTH, INFLIGHT, REQ_TOTAL, REQ_FAILED, pc, kind, full_text,
          last_len, first_token, nsnaps, emitted, reply, status, acquires,
          releases, script, now, t0, first_at, TTFT_HIST, request, params,
          mon_pc, mon_last, VLLM_INTERNAL_WAITING>>

semvars == <<sem_value, sem_waiters, sem_woken>>
localvars == <<full_text, last_len, first_token, emitted, reply, t0, first_at,
               params>>
monvars == <<mon_pc, mon_last, VLLM_INTERNAL_WAITING>>

NoReply == <<"none">>

\* ---- asyncio.Semaphore ----

\* Faulty variant of Locked: the value test is forgotten, so a semaphore with
\* no permit and no waiter lets a caller through.
LockedIgnoresValue(value, waiters) == waiters # <<>>

\* Semaphore.locked(): a waiter in _waiters is never a cancelled future here,
\* because a cancelled waiter is removed in the step that cancels it.
Locked(value, waiters) == value = 0 \/ waiters # <<>>

\* Faulty variant of FirstNotDone: the waiters are searched from the newest.
LastNotDone(waiters, woken) ==
    IF \E i \in 1..Len(waiters) : waiters[i] \notin woken
    THEN CHOOSE i \in 1..Len(waiters) :
            /\ waiters[i] \notin woken
            /\ \A j \in (i + 1)..Len(waiters) : waiters[j] \in woken
    ELSE 0

\* index of the first waiter whose future is not done, 0 when there is none
FirstNotDone(waiters, woken) ==
    IF \E i \in 1..Len(waiters) : waiters[i] \notin woken
    THEN CHOOSE i \in 1..Len(waiters) :
            /\ waiters[i] \notin woken
            /\ \A j \in 1..(i - 1) : waiters[j] \in woken
    ELSE 0

\* Faulty variant of WakeUpNext: the wake-up is lost, no waiter is handed the
\* permit.
WakeUpNextLost(value, waiters, woken) == [value |-> value, woken |-> woken]

\* Semaphore._wake_up_next()
WakeUpNext(value, waiters, woken) ==
    LET i == FirstNotDone(waiters, woken) IN
    IF i = 0
    THEN [value |-> value, woken |-> woken]
    ELSE [value |-> value - 1, woken |-> woken \cup {waiters[i]}]

\* Faulty variant of SemRelease: the permit is given back twice.
SemReleaseTwice(value, waiters, woken) == WakeUpNext(value + 2, waiters, woken)

\* Semaphore.release()
SemRelease(value, waiters, woken) == WakeUpNext(value + 1, waiters, woken)

\* _waiters.remove(fut)
RemoveWaiter(waiters, s) == SelectSeq(waiters, LAMBDA x : x # s)

\* Faulty variant of GetNowait: the item is looked at but left in the queue.
GetNowaitKeepsItem(q) == q

\* admission_queue.get_nowait() guarded by except QueueEmpty
GetNowait(q) == IF q > 0 THEN q - 1 ELSE q

\* the state after module import and LLMService(), whatever the engine will
\* answer
InitServer ==
    /\ MAX_INFLIGHT \in 1..MaxCap
    /\ sem_value = MAX_INFLIGHT
    /\ sem_waiters = <<>>
    /\ sem_woken = {}
    /\ admission_queue = 0
    /\ QUEUE_LENGTH = 0
    /\ INFLIGHT = 0
    /\ REQ_TOTAL = 0
    /\ REQ_FAILED = 0
    /\ pc = [s \in Sessions |-> "idle"]
    /\ kind = [s \in Sessions |-> "none"]
    /\ full_text = [s \in Sessions |-> <<>>]
    /\ last_len = [s \in Sessions |-> 0]
    /\ first_token = [s \in Sessions |-> FALSE]
    /\ nsnaps = [s \in Sessions |-> 0]
    /\ emitted = [s \in Sessions |-> <<>>]
    /\ reply = [s \in Sessions |-> NoReply]
    /\ status = [s \in Sessions |-> "none"]
    /\ acquires = [s \in Sessions |-> 0]
    /\ releases = [s \in Sessions |-> 0]
    /\ now = 0
    /\ t0 = [s \in Sessions |-> 0]
    /\ first_at = [s \in Sessions |-> -1]
    /\ TTFT_HIST = 0
    /\ params = [s \in Sessions |-> <<>>]
    /\ mon_pc = "querying"
    /\ mon_last = "none"
    /\ VLLM_INTERNAL_WAITING = -1

\* a request whose max_new_tokens and temperature are left unset
DefaultRequest ==
    [max_new_tokens |-> 0, temperature |-> [nan |-> FALSE, tenths |-> 0]]

Init ==
    /\ InitServer
    /\ script = <<>>
    /\ request = [s \in Sessions |-> DefaultRequest]

\* ---- SamplingParams ----

\* max_tokens when the request leaves max_new_tokens unset
DefaultMaxTokens == 50
\* temperature, in tenths, when the request has none above zero
DefaultTemperature == 8

\* request.temperature > 0; a temperature is a number of tenths or NaN, and
\* every comparison with NaN is false
Positive(t) == ~t.nan /\ t.tenths > 0

\* request.max_new_tokens or 50
MaxTokens(m) == IF m # 0 THEN m ELSE DefaultMaxTokens

\* request.temperature if request.temperature > 0 else 0.8
Temperature(t) ==
    IF Positive(t) THEN t ELSE [nan |-> FALSE, tenths |-> DefaultTemperature]

\* SamplingParams(max_tokens=..., temperature=...)
SamplingParams(req) ==
    [max_tokens |-> MaxTokens(req.max_new_tokens),
     temperature |-> Temperature(req.temperature)]

\* ---- admission_guard ----

\* a faulty Arrive: `await admission_queue.put(1)` is missing
ArriveWithoutPut(s, k) ==
    /\ pc[s] = "idle"
    /\ \A r \in Sessions : r < s => pc[r] # "idle"
    /\ REQ_TOTAL' = REQ_TOTAL + 1
    /\ kind' = [kind EXCEPT ![s] = k]
    /\ params' = [params EXCEPT ![s] = <<SamplingParams(request[s])>>]
    /\ t0' = [t0 EXCEPT ![s] = now]
    /\ IF ~Locked(sem_value, sem_waiters)
       THEN /\ sem_value' = sem_value - 1
            /\ admission_queue' = GetNowait(admission_queue)
            /\ QUEUE_LENGTH' = admission_queue'
            /\ INFLIGHT' = INFLIGHT + 1
            /\ acquires' = [acquires EXCEPT ![s] = @ + 1]
            /\ pc' = [pc EXCEPT ![s] = "running"]
            /\ UNCHANGED sem_waiters
       ELSE /\ admission_queue' = admission_queue
            /\ QUEUE_LENGTH' = admission_queue'
            /\ sem_waiters' = Append(sem_waiters, s)
            /\ pc' = [pc EXCEPT ![s] = "waiting"]
            /\ UNCHANGED <<sem_value, INFLIGHT, acquires>>
    /\ UNCHANGED <<MAX_INFLIGHT, monvars, request, script, now, TTFT_HIST, sem_woken,
                   REQ_FAILED, full_text, last_len, first_token, emitted,
                   reply, first_at, nsnaps, status, releases>>

\* A call arrives: REQ_TOTAL.inc(), the locals, then admission_guard up to
\* its first suspension.  With a free permit acquire() returns at once and
\* the session runs on to the first await of the engine.
Arrive(s, k) ==
    /\ pc[s] = "idle"
    /\ \A r \in Sessions : r < s => pc[r] # "idle"
    /\ REQ_TOTAL' = REQ_TOTAL + 1
    /\ kind' = [kind EXCEPT ![s] = k]
    /\ params' = [params EXCEPT ![s] = <<SamplingParams(request[s])>>]
    /\ t0' = [t0 EXCEPT ![s] = now]
    /\ IF ~Locked(sem_value, sem_waiters)
       THEN /\ sem_value' = sem_value - 1
            /\ admission_queue' = GetNowait(admission_queue + 1)
            /\ QUEUE_LENGTH' = admission_queue'
            /\ INFLIGHT' = INFLIGHT + 1
            /\ acquires' = [acquires EXCEPT ![s] = @ + 1]
            /\ pc' = [pc EXCEPT ![s] = "running"]
            /\ UNCHANGED sem_waiters
       ELSE /\ admission_queue' = admission_queue + 1
            /\ QUEUE_LENGTH' = admission_queue'
            /\ sem_waiters' = Append(sem_waiters, s)
            /\ pc' = [pc EXCEPT ![s] = "waiting"]
            /\ UNCHANGED <<sem_value, INFLIGHT, acquires>>
    /\ UNCHANGED <<MAX_INFLIGHT, monvars, request, script, now, TTFT_HIST, sem_woken,
                   REQ_FAILED, full_text, last_len, first_token, emitted,
                   reply, first_at, nsnaps, status, releases>>

\* a faulty Granted: t0 is read after admission instead of before it
GrantedRestartsClock(s) ==
    /\ pc[s] = "waiting"
    /\ s \in sem_woken
    /\ \A i, j \in 1..Len(sem_waiters) :
          (i < j /\ sem_waiters[j] = s) => sem_waiters[i] \notin sem_woken
    /\ LET w == RemoveWaiter(sem_waiters, s)
           k == sem_woken \ {s}
           n == IF sem_value > 0 THEN WakeUpNext(sem_value, w, k)
                ELSE [value |-> sem_value, woken |-> k]
       IN  /\ sem_waiters' = w
           /\ sem_value' = n.value
           /\ sem_woken' = n.woken
    /\ admission_queue' = GetNowait(admission_queue)
    /\ QUEUE_LENGTH' = admission_queue'
    /\ INFLIGHT' = INFLIGHT + 1
    /\ acquires' = [acquires EXCEPT ![s] = @ + 1]
    /\ pc' = [pc EXCEPT ![s] = "running"]
    /\ t0' = [t0 EXCEPT ![s] = now]
    /\ UNCHANGED <<MAX_INFLIGHT, monvars, request, script, now, TTFT_HIST, REQ_TOTAL,
                   REQ_FAILED, kind, full_text, last_len, first_token,
                   emitted, reply, first_at, params, nsnaps, status,
                   releases>>

\* A waiter whose future got its result resumes inside acquire(), returns
\* from it and enters the guarded body.  The event loop runs the wake-ups in
\* the order in which set_result() scheduled them, which is the order of the
\* waiters in the deque.
Granted(s) ==
    /\ pc[s] = "waiting"
    /\ s \in sem_woken
    /\ \A i, j \in 1..Len(sem_waiters) :
          (i < j /\ sem_waiters[j] = s) => sem_waiters[i] \notin sem_woken
    /\ LET w == RemoveWaiter(sem_waiters, s)
           k == sem_woken \ {s}
           n == IF sem_value > 0 THEN WakeUpNext(sem_value, w, k)
                ELSE [value |-> sem_value, woken |-> k]
       IN  /\ sem_waiters' = w
           /\ sem_value' = n.value
           /\ sem_woken' = n.woken
    /\ admission_queue' = GetNowait(admission_queue)
    /\ QUEUE_LENGTH' = admission_queue'
    /\ INFLIGHT' = INFLIGHT + 1
    /\ acquires' = [acquires EXCEPT ![s] = @ + 1]
    /\ pc' = [pc EXCEPT ![s] = "running"]
    /\ UNCHANGED <<MAX_INFLIGHT, monvars, request, script, now, TTFT_HIST, REQ_TOTAL, REQ_FAILED, kind, localvars,
                   nsnaps, status, releases>>

\* Faulty variant of GuardExit: the outer finally is missing, the permit is
\* never given back.
GuardExitNoRelease(s) ==
    /\ INFLIGHT' = INFLIGHT - 1
    /\ UNCHANGED <<semvars, releases>>

\* The two finally blocks of admission_guard: INFLIGHT.dec() and
\* admission_sem.release().
GuardExit(s) ==
    /\ INFLIGHT' = INFLIGHT - 1
    /\ LET n == SemRelease(sem_value, sem_waiters, sem_woken)
       IN  /\ sem_value' = n.value
           /\ sem_woken' = n.woken
    /\ releases' = [releases EXCEPT ![s] = @ + 1]
    /\ UNCHANGED sem_waiters

\* The handler has returned or raised: its frame, and with it the locals and
\* the engine's stream for the request, no longer exist.
Return(s) ==
    /\ full_text' = [full_text EXCEPT ![s] = <<>>]
    /\ last_len' = [last_len EXCEPT ![s] = 0]
    /\ first_token' = [first_token EXCEPT ![s] = FALSE]
    /\ nsnaps' = [nsnaps EXCEPT ![s] = 0]
    /\ t0' = [t0 EXCEPT ![s] = 0]
    /\ first_at' = [first_at EXCEPT ![s] = -1]
    /\ params' = [params EXCEPT ![s] = <<>>]

\* ---- LLMService.Generate / LLMService.StreamGenerate ----

\* chunk = full_text[last_len:]
\* a faulty Suffix: the whole text instead of the part beyond last_len
SuffixKeepsAll(t, n) == t

Suffix(t, n) == SubSeq(t, n + 1, Len(t))

\* a faulty Token: is_last is never set
TokenNeverLast(t, l) == [text |-> t, is_last |-> FALSE]

Token(t, l) == [text |-> t, is_last |-> l]

\* a faulty GenerateSnapshot: the test of line 148 forgets first_token
GenerateSnapshotObservesAgain(s, out) ==
    /\ kind[s] = "Generate"
    /\ IF ~out.outputs
       THEN UNCHANGED <<full_text, first_token, first_at, TTFT_HIST>>
       ELSE /\ full_text' = [full_text EXCEPT ![s] = out.text]
            /\ IF out.text # <<>>
               THEN /\ TTFT_HIST' = TTFT_HIST + 1
                    /\ first_at' = [first_at EXCEPT ![s] = now]
                    /\ first_token' = [first_token EXCEPT ![s] = TRUE]
               ELSE UNCHANGED <<first_token, first_at, TTFT_HIST>>
    /\ UNCHANGED <<pc, last_len, emitted>>

\* Body of the `async for` of Generate for one snapshot.
GenerateSnapshot(s, out) ==
    /\ kind[s] = "Generate"
    /\ IF ~out.outputs
       THEN UNCHANGED <<full_text, first_token, first_at, TTFT_HIST>>
       ELSE /\ full_text' = [full_text EXCEPT ![s] = out.text]
            /\ IF ~first_token[s] /\ out.text # <<>>
               THEN /\ TTFT_HIST' = TTFT_HIST + 1
                    /\ first_at' = [first_at EXCEPT ![s] = now]
                    /\ first_token' = [first_token EXCEPT ![s] = TRUE]
               ELSE UNCHANGED <<first_token, first_at, TTFT_HIST>>
    /\ UNCHANGED <<pc, last_len, emitted>>

\* a faulty StreamSnapshot: `>=` in place of `>` at line 183
StreamSnapshotOnEqualLength(s, out) ==
    /\ kind[s] = "StreamGenerate"
    /\ IF out.outputs /\ Len(out.text) >= last_len[s]
       THEN /\ full_text' = [full_text EXCEPT ![s] = out.text]
            /\ IF ~first_token[s]
               THEN /\ TTFT_HIST' = TTFT_HIST + 1
                    /\ first_at' = [first_at EXCEPT ![s] = now]
                    /\ first_token' = [first_token EXCEPT ![s] = TRUE]
               ELSE UNCHANGED <<first_token, first_at, TTFT_HIST>>
            /\ last_len' = [last_len EXCEPT ![s] = Len(out.text)]
            /\ emitted' = [emitted EXCEPT
                  ![s] = Append(@, Token(Suffix(out.text, last_len[s]), FALSE))]
            /\ pc' = [pc EXCEPT ![s] = "yielding"]
       ELSE /\ full_text' = [full_text EXCEPT
                  ![s] = IF out.outputs THEN out.text ELSE @]
            /\ UNCHANGED <<first_token, first_at, TTFT_HIST, last_len,
                           emitted, pc>>

\* Body of the `async for` of StreamGenerate for one snapshot; a snapshot
\* that grew is yielded as a delta and the generator suspends at the yield.
StreamSnapshot(s, out) ==
    /\ kind[s] = "StreamGenerate"
    /\ IF out.outputs /\ Len(out.text) > last_len[s]
       THEN /\ full_text' = [full_text EXCEPT ![s] = out.text]
            /\ IF ~first_token[s]
               THEN /\ TTFT_HIST' = TTFT_HIST + 1
                    /\ first_at' = [first_at EXCEPT ![s] = now]
                    /\ first_token' = [first_token EXCEPT ![s] = TRUE]
               ELSE UNCHANGED <<first_token, first_at, TTFT_HIST>>
            /\ last_len' = [last_len EXCEPT ![s] = Len(out.text)]
            /\ emitted' = [emitted EXCEPT
                  ![s] = Append(@, Token(Suffix(out.text, last_len[s]), FALSE))]
            /\ pc' = [pc EXCEPT ![s] = "yielding"]
       ELSE /\ full_text' = [full_text EXCEPT
                  ![s] = IF out.outputs THEN out.text ELSE @]
            /\ UNCHANGED <<first_token, first_at, TTFT_HIST, last_len,
                           emitted, pc>>

\* The engine hands the next snapshot to a session awaiting it.
EngineSnapshot(s, out) ==
    /\ pc[s] = "running"
    /\ nsnaps[s] < MaxSnaps
    /\ nsnaps' = [nsnaps EXCEPT ![s] = @ + 1]
    /\ GenerateSnapshot(s, out) \/ StreamSnapshot(s, out)
    /\ UNCHANGED <<MAX_INFLIGHT, monvars, request, script, now, t0, params, semvars, admission_queue, QUEUE_LENGTH,
                   INFLIGHT, REQ_TOTAL, REQ_FAILED, kind, reply, status,
                   acquires, releases>>

\* The transport has written the delta and asks the generator for the next
\* message: StreamGenerate resumes after the yield and awaits the engine.
Delivered(s) ==
    /\ pc[s] = "yielding"
    /\ pc' = [pc EXCEPT ![s] = "running"]
    /\ UNCHANGED <<MAX_INFLIGHT, monvars, request, script, now, TTFT_HIST, semvars, admission_queue, QUEUE_LENGTH,
                   INFLIGHT, REQ_TOTAL, REQ_FAILED, kind, localvars, nsnaps,
                   status, acquires, releases>>

\* a faulty EngineExhausted: Generate replies without the accumulated text
EngineExhaustedEmptyReply(s) ==
    /\ pc[s] = "running"
    /\ GuardExit(s)
    /\ IF kind[s] = "Generate"
       THEN /\ reply' = [reply EXCEPT ![s] = <<>>]
            /\ pc' = [pc EXCEPT ![s] = "completed"]
            /\ status' = [status EXCEPT ![s] = "OK"]
            /\ Return(s)
            /\ UNCHANGED emitted
       ELSE /\ emitted' = [emitted EXCEPT ![s] = Append(@, Token(<<>>, TRUE))]
            /\ pc' = [pc EXCEPT ![s] = "last_yield"]
            /\ UNCHANGED <<reply, status, full_text, last_len, first_token,
                           nsnaps, t0, first_at, params>>
    /\ UNCHANGED <<MAX_INFLIGHT, monvars, request, script, now, TTFT_HIST, admission_queue, QUEUE_LENGTH, REQ_TOTAL,
                   REQ_FAILED, kind, acquires>>

\* The engine sequence is exhausted: the session leaves admission_guard.
\* Generate returns its reply; StreamGenerate yields the end marker.
EngineExhausted(s) ==
    /\ pc[s] = "running"
    /\ GuardExit(s)
    /\ IF kind[s] = "Generate"
       THEN /\ reply' = [reply EXCEPT ![s] = full_text[s]]
            /\ pc' = [pc EXCEPT ![s] = "completed"]
            /\ status' = [status EXCEPT ![s] = "OK"]
            /\ Return(s)
            /\ UNCHANGED emitted
       ELSE /\ emitted' = [emitted EXCEPT ![s] = Append(@, Token(<<>>, TRUE))]
            /\ pc' = [pc EXCEPT ![s] = "last_yield"]
            /\ UNCHANGED <<reply, status, full_text, last_len, first_token,
                           nsnaps, t0, first_at, params>>
    /\ UNCHANGED <<MAX_INFLIGHT, monvars, request, script, now, TTFT_HIST, admission_queue, QUEUE_LENGTH, REQ_TOTAL,
                   REQ_FAILED, kind, acquires>>

\* The transport has written the end marker; the generator returns.
DeliveredLast(s) ==
    /\ pc[s] = "last_yield"
    /\ pc' = [pc EXCEPT ![s] = "completed"]
    /\ status' = [status EXCEPT ![s] = "OK"]
    /\ Return(s)
    /\ UNCHANGED <<MAX_INFLIGHT, monvars, request, script, now, TTFT_HIST, semvars, admission_queue, QUEUE_LENGTH,
                   INFLIGHT, REQ_TOTAL, REQ_FAILED, kind, emitted, reply,
                   acquires, releases>>

\* Faulty variant of EngineError: the failure is not counted, as if the
\* exception were handled by the `except asyncio.CancelledError` clause.
EngineErrorNotCounted(s) ==
    /\ pc[s] = "running"
    /\ GuardExit(s)
    /\ pc' = [pc EXCEPT ![s] = "failed"]
    /\ status' = [status EXCEPT ![s] = "INTERNAL"]
    /\ Return(s)
    /\ UNCHANGED <<MAX_INFLIGHT, monvars, request, script, now, TTFT_HIST, admission_queue, QUEUE_LENGTH, REQ_TOTAL,
                   REQ_FAILED, kind, emitted, reply, acquires>>

\* The engine raises while the session awaits it: the exception leaves
\* admission_guard through its finally blocks and reaches `except Exception`
\* (REQ_FAILED.inc(), context.abort(INTERNAL)).
EngineError(s) ==
    /\ pc[s] = "running"
    /\ GuardExit(s)
    /\ REQ_FAILED' = REQ_FAILED + 1
    /\ pc' = [pc EXCEPT ![s] = "failed"]
    /\ status' = [status EXCEPT ![s] = "INTERNAL"]
    /\ Return(s)
    /\ UNCHANGED <<MAX_INFLIGHT, monvars, request, script, now, TTFT_HIST, admission_queue, QUEUE_LENGTH, REQ_TOTAL,
                   kind, emitted, reply, acquires>>

\* ---- caller cancellation ----

\* a faulty AcquireCancelled: a permit that had been handed to the cancelled
\* waiter is not given back
AcquireCancelledKeepsPermit(value, waiters, woken, s) ==
    [value |-> value, waiters |-> RemoveWaiter(waiters, s),
     woken |-> woken \ {s}]

\* Semaphore.acquire() when CancelledError arrives at `await fut`: the
\* waiter is removed, and a permit already handed to it is given back and
\* passed to the next waiter.
AcquireCancelled(value, waiters, woken, s) ==
    LET w == RemoveWaiter(waiters, s)
        k == woken \ {s}
        n == IF s \in woken THEN WakeUpNext(value + 1, w, k)
             ELSE [value |-> value, woken |-> k]
    IN  [value |-> n.value, waiters |-> w, woken |-> n.woken]

\* Faulty variant of CancelWaiting: CancelledError is handled by the
\* `except Exception` clause, as if it were an ordinary error.
CancelWaitingAsFailure(s) ==
    /\ pc[s] = "waiting"
    /\ LET n == AcquireCancelled(sem_value, sem_waiters, sem_woken, s)
       IN  /\ sem_waiters' = n.waiters
           /\ sem_value' = n.value
           /\ sem_woken' = n.woken
    /\ REQ_FAILED' = REQ_FAILED + 1
    /\ pc' = [pc EXCEPT ![s] = "failed"]
    /\ status' = [status EXCEPT ![s] = "INTERNAL"]
    /\ Return(s)
    /\ UNCHANGED <<MAX_INFLIGHT, monvars, request, script, now, TTFT_HIST, admission_queue, QUEUE_LENGTH, INFLIGHT,
                   REQ_TOTAL, kind, emitted, reply, acquires, releases>>

\* Cancelled inside admission_sem.acquire(): acquire() removes the waiter
\* and, when the permit had already been handed to it, gives the permit
\* back.  CancelledError leaves admission_guard at line 78, before its try,
\* and is caught at `except asyncio.CancelledError: return`.
CancelWaiting(s) ==
    /\ pc[s] = "waiting"
    /\ LET n == AcquireCancelled(sem_value, sem_waiters, sem_woken, s)
       IN  /\ sem_waiters' = n.waiters
           /\ sem_value' = n.value
           /\ sem_woken' = n.woken
    /\ pc' = [pc EXCEPT ![s] = "cancelled"]
    /\ status' = [status EXCEPT ![s] = "CANCELLED"]
    /\ Return(s)
    /\ UNCHANGED <<MAX_INFLIGHT, monvars, request, script, now, TTFT_HIST, admission_queue, QUEUE_LENGTH, INFLIGHT,
                   REQ_TOTAL, REQ_FAILED, kind, emitted, reply, acquires,
                   releases>>

\* a faulty CancelRunning: CancelledError falls into `except Exception`
CancelRunningAsFailure(s) ==
    /\ pc[s] = "running"
    /\ GuardExit(s)
    /\ pc' = [pc EXCEPT ![s] = "cancelled"]
    /\ status' = [status EXCEPT ![s] = "CANCELLED"]
    /\ REQ_FAILED' = REQ_FAILED + 1
    /\ Return(s)
    /\ UNCHANGED <<MAX_INFLIGHT, monvars, request, script, now, TTFT_HIST, admission_queue,
                   QUEUE_LENGTH, REQ_TOTAL, kind, emitted, reply, acquires>>

\* Cancelled while awaiting the engine: CancelledError is raised at the
\* `async for`, runs the finally blocks of admission_guard and is caught.
CancelRunning(s) ==
    /\ pc[s] = "running"
    /\ GuardExit(s)
    /\ pc' = [pc EXCEPT ![s] = "cancelled"]
    /\ status' = [status EXCEPT ![s] = "CANCELLED"]
    /\ Return(s)
    /\ UNCHANGED <<MAX_INFLIGHT, monvars, request, script, now, TTFT_HIST, admission_queue, QUEUE_LENGTH, REQ_TOTAL,
                   REQ_FAILED, kind, emitted, reply, acquires>>

\* a faulty CancelYielding: the gauge stops counting the generator although
\* it is still suspended inside admission_guard
CancelYieldingDropsGauge(s) ==
    /\ pc[s] = "yielding"
    /\ pc' = [pc EXCEPT ![s] = "abandoned"]
    /\ status' = [status EXCEPT ![s] = "CANCELLED"]
    /\ INFLIGHT' = INFLIGHT - 1
    /\ UNCHANGED <<MAX_INFLIGHT, monvars, request, script, now, TTFT_HIST,
                   semvars, admission_queue, QUEUE_LENGTH, REQ_TOTAL,
                   REQ_FAILED, kind, localvars, nsnaps, acquires, releases>>

\* Cancelled while StreamGenerate is suspended at the yield of a delta: the
\* call ends for the caller, the generator stays suspended inside
\* admission_guard until it is finalized.
CancelYielding(s) ==
    /\ pc[s] = "yielding"
    /\ pc' = [pc EXCEPT ![s] = "abandoned"]
    /\ status' = [status EXCEPT ![s] = "CANCELLED"]
    /\ UNCHANGED <<MAX_INFLIGHT, monvars, request, script, now, TTFT_HIST, semvars, admission_queue, QUEUE_LENGTH,
                   INFLIGHT, REQ_TOTAL, REQ_FAILED, kind, localvars, nsnaps,
                   acquires, releases>>

\* The event loop finalizes an abandoned generator: GeneratorExit is raised
\* at the yield, the finally blocks of admission_guard run, and neither
\* except clause of StreamGenerate catches it.
Finalize(s) ==
    /\ pc[s] = "abandoned"
    /\ GuardExit(s)
    /\ pc' = [pc EXCEPT ![s] = "cancelled"]
    /\ Return(s)
    /\ UNCHANGED <<MAX_INFLIGHT, monvars, request, script, now, TTFT_HIST, admission_queue, QUEUE_LENGTH, REQ_TOTAL,
                   REQ_FAILED, kind, emitted, reply, status, acquires>>

\* Cancelled while suspended at the yield of the end marker, which is
\* outside admission_guard: nothing is left to clean up.
CancelLastYield(s) ==
    /\ pc[s] = "last_yield"
    /\ pc' = [pc EXCEPT ![s] = "cancelled"]
    /\ status' = [status EXCEPT ![s] = "CANCELLED"]
    /\ Return(s)
    /\ UNCHANGED <<MAX_INFLIGHT, monvars, request, script, now, TTFT_HIST, semvars, admission_queue, QUEUE_LENGTH,
                   INFLIGHT, REQ_TOTAL, REQ_FAILED, kind, emitted, reply,
                   acquires, releases>>

Kinds == {"Generate", "StreamGenerate"}

IsPrefix(t, u) == Len(t) <= Len(u) /\ SubSeq(u, 1, Len(t)) = t

\* What a cumulative engine may report next for a session: nothing, or a
\* text that extends the text it reported last (kept in full_text).
CumulativeOuts(s) ==
    {out \in Snapshots : ~out.outputs \/ IsPrefix(full_text[s], out.text)}

Next ==
    \/ \E s \in Sessions, k \in Kinds : Arrive(s, k)
    \/ \E s \in Sessions : Granted(s)
    \/ \E s \in Sessions : \E out \in CumulativeOuts(s) : EngineSnapshot(s, out)
    \/ \E s \in Sessions : Delivered(s)
    \/ \E s \in Sessions : EngineExhausted(s)
    \/ \E s \in Sessions : DeliveredLast(s)
    \/ \E s \in Sessions : EngineError(s)
    \/ \E s \in Sessions : CancelWaiting(s)
    \/ \E s \in Sessions : CancelRunning(s)
    \/ \E s \in Sessions : CancelYielding(s)
    \/ \E s \in Sessions : Finalize(s)
    \/ \E s \in Sessions : CancelLastYield(s)

Spec == Init /\ [][Next]_vars

\* ---- runs without caller cancellation and without engine errors ----

NextOrderly ==
    \/ \E s \in Sessions, k \in Kinds : Arrive(s, k)
    \/ \E s \in Sessions : Granted(s)
    \/ \E s \in Sessions : \E out \in CumulativeOuts(s) : EngineSnapshot(s, out)
    \/ \E s \in Sessions : Delivered(s)
    \/ \E s \in Sessions : EngineExhausted(s)
    \/ \E s \in Sessions : DeliveredLast(s)

\* The next step of a session that is ready to run: the event loop runs
\* every ready task, the engine hands over its next snapshot or ends its
\* finite sequence, and the transport takes every message it is given.
Progress(s) ==
    \/ Granted(s)
    \/ \E out \in CumulativeOuts(s) : EngineSnapshot(s, out)
    \/ Delivered(s)
    \/ EngineExhausted(s)
    \/ DeliveredLast(s)

FairSpec ==
    /\ Init
    /\ [][NextOrderly]_vars
    /\ \A s \in Sessions : WF_vars(Progress(s))

\* ---- the same engine output sequence fed to every call ----

\* the snapshots of such a sequence: no outputs, or outputs whose text has
\* any length, whatever the snapshots before it held
ScriptSnapshots ==
    {NoOutputs} \cup
    {[outputs |-> TRUE, text |-> Repeat("a", n)] : n \in 0..MaxScriptText}

\* every finite sequence of snapshots an engine call can yield for the prompt
Scripts == UNION {[1..n -> ScriptSnapshots] : n \in 0..MaxSnaps}

\* the two calls that are given the same prompt
Pair == 1..2

InitScripted ==
    /\ InitServer
    /\ script \in Scripts
    /\ request = [s \in Sessions |-> DefaultRequest]

\* the engine hands the call the next snapshot of the sequence
ScriptedSnapshot(s) ==
    /\ nsnaps[s] < Len(script)
    /\ EngineSnapshot(s, script[nsnaps[s] + 1])

\* the engine's sequence ends after its last snapshot
ScriptedExhausted(s) ==
    /\ nsnaps[s] = Len(script)
    /\ EngineExhausted(s)

NextScripted ==
    \/ \E s \in Pair, k \in Kinds : Arrive(s, k)
    \/ \E s \in Pair : Granted(s)
    \/ \E s \in Pair : ScriptedSnapshot(s)
    \/ \E s \in Pair : Delivered(s)
    \/ \E s \in Pair : ScriptedExhausted(s)
    \/ \E s \in Pair : DeliveredLast(s)
    \/ \E s \in Pair : EngineError(s)
    \/ \E s \in Pair : CancelWaiting(s)
    \/ \E s \in Pair : CancelRunning(s)
    \/ \E s \in Pair : CancelYielding(s)
    \/ \E s \in Pair : Finalize(s)
    \/ \E s \in Pair : CancelLastYield(s)

ScriptedSpec == InitScripted /\ [][NextScripted]_vars

\* ---- runs in which time passes ----

\* time.time() returns a later value
Tick ==
    /\ now < MaxClock
    /\ now' = now + 1
    /\ UNCHANGED <<MAX_INFLIGHT, sem_value, sem_waiters, sem_woken,
                   admission_queue, QUEUE_LENGTH, INFLIGHT, REQ_TOTAL,
                   REQ_FAILED, pc, kind, full_text, last_len, first_token,
                   nsnaps, emitted, reply, status, acquires, releases, script,
                   t0, first_at, TTFT_HIST, request, params, monvars>>

NextTimed ==
    \/ Tick
    \/ \E s \in Pair, k \in Kinds : Arrive(s, k)
    \/ \E s \in Pair : Granted(s)
    \/ \E s \in Pair : \E out \in CumulativeOuts(s) : EngineSnapshot(s, out)
    \/ \E s \in Pair : Delivered(s)
    \/ \E s \in Pair : EngineExhausted(s)
    \/ \E s \in Pair : DeliveredLast(s)
    \/ \E s \in Pair : EngineError(s)
    \/ \E s \in Pair : CancelWaiting(s)
    \/ \E s \in Pair : CancelRunning(s)
    \/ \E s \in Pair : CancelYielding(s)
    \/ \E s \in Pair : Finalize(s)
    \/ \E s \in Pair : CancelLastYield(s)

TimedSpec == Init /\ [][NextTimed]_vars

\* ---- monitor_vllm_internal_queue ----

\* vars without the monitor's
sessionvars ==
    <<MAX_INFLIGHT, sem_value, sem_waiters, sem_woken, admission_queue,
      QUEUE_LENGTH, INFLIGHT, REQ_TOTAL, REQ_FAILED, pc, kind, full_text,
      last_len, first_token, nsnaps, emitted, reply, status, acquires,
      releases, script, now, t0, first_at, TTFT_HIST, request, params>>

\* The status query returns; num_waiting_requests is a number w, or is
\* missing or not a number (w = -1) and the gauge is left alone.  The task
\* goes on to asyncio.sleep(5).
MonitorQueryReturns(w) ==
    /\ mon_pc = "querying"
    /\ VLLM_INTERNAL_WAITING' = IF w >= 0 THEN w ELSE VLLM_INTERNAL_WAITING
    /\ mon_last' = "ok"
    /\ mon_pc' = "sleeping"
    /\ UNCHANGED sessionvars

\* a faulty MonitorQueryFails: the exception leaves the loop and ends the task
MonitorQueryFailsFatal ==
    /\ mon_pc = "querying"
    /\ mon_last' = "failed"
    /\ mon_pc' = "dead"
    /\ UNCHANGED <<VLLM_INTERNAL_WAITING, sessionvars>>

\* The status query raises: `except Exception: pass`, then asyncio.sleep(5).
MonitorQueryFails ==
    /\ mon_pc = "querying"
    /\ mon_last' = "failed"
    /\ mon_pc' = "sleeping"
    /\ UNCHANGED <<VLLM_INTERNAL_WAITING, sessionvars>>

\* asyncio.sleep(5) is over: the loop starts the next status query.
MonitorWakes ==
    /\ mon_pc = "sleeping"
    /\ mon_pc' = "querying"
    /\ UNCHANGED <<mon_last, VLLM_INTERNAL_WAITING, sessionvars>>

NextMonitored ==
    \/ \E w \in -1..MaxBacklog : MonitorQueryReturns(w)
    \/ MonitorQueryFails
    \/ MonitorWakes
    \/ \E s \in Pair, k \in Kinds : Arrive(s, k)
    \/ \E s \in Pair : Granted(s)
    \/ \E s \in Pair : \E out \in CumulativeOuts(s) : EngineSnapshot(s, out)
    \/ \E s \in Pair : Delivered(s)
    \/ \E s \in Pair : EngineExhausted(s)
    \/ \E s \in Pair : DeliveredLast(s)

\* The engine answers every status query, with a result or an exception,
\* and the event loop fires every timer.
MonitorSpec ==
    /\ Init
    /\ [][NextMonitored]_vars
    /\ WF_vars((\E w \in -1..MaxBacklog : MonitorQueryReturns(w))
                  \/ MonitorQueryFails)
    /\ WF_vars(MonitorWakes)

\* ---- requests with arbitrary sampling fields ----

\* temperature values of a request: NaN, or a number in tenths
Temperatures ==
    {[nan |-> TRUE, tenths |-> 0]}
        \cup {[nan |-> FALSE, tenths |-> d] : d \in -MaxTenths..MaxTenths}

\* the max_new_tokens and temperature fields of a GenerateRequest
Requests ==
    [max_new_tokens : -MaxNewTokens..MaxNewTokens, temperature : Temperatures]

InitParams ==
    /\ InitServer
    /\ script = <<>>
    /\ request \in [Sessions -> Requests]
    /\ \A s \in Sessions \ Pair : request[s] = DefaultRequest

\* The constructor of SamplingParams belongs to the engine's library: for
\* a max_tokens below one it may raise, and the handler's `except Exception`
\* then fails the call before admission_guard is entered.
Rejected(s, k) ==
    /\ pc[s] = "idle"
    /\ \A r \in Sessions : r < s => pc[r] # "idle"
    /\ SamplingParams(request[s]).max_tokens < 1
    /\ REQ_TOTAL' = REQ_TOTAL + 1
    /\ kind' = [kind EXCEPT ![s] = k]
    /\ REQ_FAILED' = REQ_FAILED + 1
    /\ status' = [status EXCEPT ![s] = "INTERNAL"]
    /\ pc' = [pc EXCEPT ![s] = "failed"]
    /\ UNCHANGED <<MAX_INFLIGHT, monvars, request, script, now, TTFT_HIST,
                   semvars, admission_queue, QUEUE_LENGTH, INFLIGHT,
                   localvars, nsnaps, acquires, releases>>

NextParams ==
    \/ \E s \in Pair, k \in Kinds : Arrive(s, k)
    \/ \E s \in Pair, k \in Kinds : Rejected(s, k)
    \/ \E s \in Pair : Granted(s)
    \/ \E s \in Pair : EngineExhausted(s)
    \/ \E s \in Pair : DeliveredLast(s)

ParamSpec == InitParams /\ [][NextParams]_vars

\* ---- the error path of a handler, statement by statement ----

\* The handler runs from the exception raised by the engine to the end of
\* the call without suspending; these actions follow it one statement at a
\* time, and no other task runs in between.
ErrorPath == {"finally_dec", "finally_release", "except", "abort"}

\* no handler is in the middle of its error path
NoneOnErrorPath == \A s \in Sessions : pc[s] \notin ErrorPath

\* everything but pc and what the error path writes
errorframe ==
    <<MAX_INFLIGHT, sem_waiters, admission_queue, QUEUE_LENGTH, REQ_TOTAL,
      kind, emitted, reply, acquires, script, now, TTFT_HIST, request, monvars>>

\* a faulty ErrorRaised: the exception reaches the except clause without
\* running the finally blocks of admission_guard
ErrorRaisedSkipsFinally(s) ==
    /\ NoneOnErrorPath
    /\ pc[s] = "running"
    /\ pc' = [pc EXCEPT ![s] = "except"]
    /\ UNCHANGED <<errorframe, sem_value, sem_woken, releases, INFLIGHT,
                   REQ_FAILED, status, full_text, last_len, first_token,
                   nsnaps, t0, first_at, params>>

\* self.engine.generate(...) raises inside the `async for`: the exception
\* starts to unwind the body of admission_guard.
ErrorRaised(s) ==
    /\ NoneOnErrorPath
    /\ pc[s] = "running"
    /\ pc' = [pc EXCEPT ![s] = "finally_dec"]
    /\ UNCHANGED <<errorframe, sem_value, sem_woken, releases, INFLIGHT,
                   REQ_FAILED, status, full_text, last_len, first_token,
                   nsnaps, t0, first_at, params>>

\* inner finally: INFLIGHT.dec()
ErrorInflightDec(s) ==
    /\ pc[s] = "finally_dec"
    /\ INFLIGHT' = INFLIGHT - 1
    /\ pc' = [pc EXCEPT ![s] = "finally_release"]
    /\ UNCHANGED <<errorframe, sem_value, sem_woken, releases, REQ_FAILED,
                   status, full_text, last_len, first_token, nsnaps, t0,
                   first_at, params>>

\* outer finally: admission_sem.release()
ErrorRelease(s) ==
    /\ pc[s] = "finally_release"
    /\ LET n == SemRelease(sem_value, sem_waiters, sem_woken)
       IN  /\ sem_value' = n.value
           /\ sem_woken' = n.woken
    /\ releases' = [releases EXCEPT ![s] = @ + 1]
    /\ pc' = [pc EXCEPT ![s] = "except"]
    /\ UNCHANGED <<errorframe, INFLIGHT, REQ_FAILED, status, full_text,
                   last_len, first_token, nsnaps, t0, first_at, params>>

\* except Exception: REQ_FAILED.inc()
ErrorCounted(s) ==
    /\ pc[s] = "except"
    /\ REQ_FAILED' = REQ_FAILED + 1
    /\ pc' = [pc EXCEPT ![s] = "abort"]
    /\ UNCHANGED <<errorframe, sem_value, sem_woken, releases, INFLIGHT,
                   status, full_text, last_len, first_token, nsnaps, t0,
                   first_at, params>>

\* await context.abort(StatusCode.INTERNAL, ...): the call ends with the
\* error response.
ErrorAborted(s) ==
    /\ pc[s] = "abort"
    /\ status' = [status EXCEPT ![s] = "INTERNAL"]
    /\ pc' = [pc EXCEPT ![s] = "failed"]
    /\ Return(s)
    /\ UNCHANGED <<errorframe, sem_value, sem_woken, releases, INFLIGHT,
                   REQ_FAILED>>

NextErrorPath ==
    \/ \E s \in Pair, k \in Kinds : NoneOnErrorPath /\ Arrive(s, k)
    \/ \E s \in Pair : NoneOnErrorPath /\ Granted(s)
    \/ \E s \in Pair : \E out \in CumulativeOuts(s) :
          NoneOnErrorPath /\ EngineSnapshot(s, out)
    \/ \E s \in Pair : NoneOnErrorPath /\ Delivered(s)
    \/ \E s \in Pair : NoneOnErrorPath /\ EngineExhausted(s)
    \/ \E s \in Pair : NoneOnErrorPath /\ DeliveredLast(s)
    \/ \E s \in Pair : ErrorRaised(s)
    \/ \E s \in Pair : ErrorInflightDec(s)
    \/ \E s \in Pair : ErrorRelease(s)
    \/ \E s \in Pair : ErrorCounted(s)
    \/ \E s \in Pair : ErrorAborted(s)

ErrorPathSpec == Init /\ [][NextErrorPath]_vars

\* ---- the normal end of StreamGenerate, statement by statement ----

\* From the end of the engine's sequence to the yield of the end marker the
\* generator does not suspend; these actions follow it one statement at a
\* time, and no other task runs in between.
ExitPath == {"exit_dec", "exit_release", "marker"}

NoneOnExitPath == \A s \in Sessions : pc[s] \notin ExitPath

\* everything the exit path of the guard leaves alone
exitframe ==
    <<MAX_INFLIGHT, sem_waiters, admission_queue, QUEUE_LENGTH, REQ_TOTAL,
      REQ_FAILED, kind, reply, status, acquires, script, now, TTFT_HIST,
      request, monvars, full_text, last_len, first_token, nsnaps, t0,
      first_at, params>>

\* a faulty StreamEnds: the end marker is yielded inside the `async with`
\* block, before the guard is left
StreamEndsMarkerInside(s) ==
    /\ NoneOnExitPath
    /\ kind[s] = "StreamGenerate"
    /\ pc[s] = "running"
    /\ pc' = [pc EXCEPT ![s] = "marker"]
    /\ UNCHANGED <<exitframe, sem_value, sem_woken, releases, INFLIGHT,
                   emitted>>

\* the `async for` of StreamGenerate ends: the body of admission_guard is
\* left normally
StreamEnds(s) ==
    /\ NoneOnExitPath
    /\ kind[s] = "StreamGenerate"
    /\ pc[s] = "running"
    /\ pc' = [pc EXCEPT ![s] = "exit_dec"]
    /\ UNCHANGED <<exitframe, sem_value, sem_woken, releases, INFLIGHT,
                   emitted>>

\* inner finally: INFLIGHT.dec()
ExitInflightDec(s) ==
    /\ pc[s] = "exit_dec"
    /\ INFLIGHT' = INFLIGHT - 1
    /\ pc' = [pc EXCEPT ![s] = "exit_release"]
    /\ UNCHANGED <<exitframe, sem_value, sem_woken, releases, emitted>>

\* outer finally: admission_sem.release()
ExitRelease(s) ==
    /\ pc[s] = "exit_release"
    /\ LET n == SemRelease(sem_value, sem_waiters, sem_woken)
       IN  /\ sem_value' = n.value
           /\ sem_woken' = n.woken
    /\ releases' = [releases EXCEPT ![s] = @ + 1]
    /\ pc' = [pc EXCEPT ![s] = "marker"]
    /\ UNCHANGED <<exitframe, INFLIGHT, emitted>>

\* yield pb.Token(text="", is_last=True): the generator suspends
MarkerYielded(s) ==
    /\ pc[s] = "marker"
    /\ emitted' = [emitted EXCEPT ![s] = Append(@, Token(<<>>, TRUE))]
    /\ pc' = [pc EXCEPT ![s] = "last_yield"]
    /\ UNCHANGED <<exitframe, sem_value, sem_woken, releases, INFLIGHT>>

NextStreamEnd ==
    \/ \E s \in Pair, k \in Kinds : NoneOnExitPath /\ Arrive(s, k)
    \/ \E s \in Pair : NoneOnExitPath /\ Granted(s)
    \/ \E s \in Pair : \E out \in CumulativeOuts(s) :
          NoneOnExitPath /\ EngineSnapshot(s, out)
    \/ \E s \in Pair : NoneOnExitPath /\ Delivered(s)
    \/ \E s \in Pair :
          NoneOnExitPath /\ kind[s] = "Generate" /\ EngineExhausted(s)
    \/ \E s \in Pair : NoneOnExitPath /\ DeliveredLast(s)
    \/ \E s \in Pair : StreamEnds(s)
    \/ \E s \in Pair : ExitInflightDec(s)
    \/ \E s \in Pair : ExitRelease(s)
    \/ \E s \in Pair : MarkerYielded(s)

StreamEndSpec == Init /\ [][NextStreamEnd]_vars

\* ---- sets of sessions used by the properties ----

\* sessions inside the body of admission_guard (between INFLIGHT.inc() and
\* INFLIGHT.dec())
InBody == {s \in Sessions : pc[s] \in {"running", "yielding", "abandoned"}}

\* sessions that requested admission and have not returned from acquire()
Waiting == {s \in Sessions : pc[s] = "waiting"}

\* sessions that have left the handler's guarded region for good
Ended == {s \in Sessions : pc[s] \in {"completed", "failed", "cancelled"}}

\* ---- C1 ----
\* C1: in every reachable state the number of sessions inside the body of
\* admission_guard, and the in-flight gauge that counts them, is at most the
\* configured capacity MAX_INFLIGHT.
C1_InflightAtMostCapacity ==
    /\ Cardinality(InBody) <= MAX_INFLIGHT
    /\ INFLIGHT <= MAX_INFLIGHT

\* all slots are taken while another request is waiting for one
C1_Witness ==
    /\ INFLIGHT = MAX_INFLIGHT
    /\ Cardinality(InBody) = MAX_INFLIGHT
    /\ Waiting # {}

\* ---- C2 ----
\* C2: in every reachable state the queue length (the size of
\* admission_queue and the gauge published from it) is >= 0 and equals the
\* number of requests that requested admission and were not yet granted a
\* slot.
C2_QueueLengthIsWaitingCount ==
    /\ QUEUE_LENGTH >= 0
    /\ admission_queue = Cardinality(Waiting)
    /\ QUEUE_LENGTH = Cardinality(Waiting)

\* ---- C3 ----
\* C3: a request cancelled while it waits for a slot takes its ticket with
\* it: the step that cancels it lowers the queue length by one, so that the
\* queue length is 0 whenever no request is waiting.
C3_AbandonDestroysTicket ==
    [][\A s \in Sessions :
          (pc[s] = "waiting" /\ pc'[s] = "cancelled")
              => /\ admission_queue' = admission_queue - 1
                 /\ QUEUE_LENGTH' = QUEUE_LENGTH - 1
                 /\ Waiting' = {} => QUEUE_LENGTH' = 0]_vars

\* ---- C4 ----
\* C4: a session releases the semaphore only after it acquired it and at
\* most once; while it is inside the guarded body it holds its slot, and
\* once it has left the body, by exhaustion, engine error or cancellation,
\* it has released exactly as often as it acquired, that is once.
C4_ReleaseExactlyOnce ==
    \A s \in Sessions :
        /\ acquires[s] <= 1
        /\ releases[s] <= acquires[s]
        /\ s \in InBody => (acquires[s] = 1 /\ releases[s] = 0)
        /\ pc[s] \in {"last_yield", "completed", "failed", "cancelled"}
              => releases[s] = acquires[s]

\* a session left the body by cancellation and another by engine error or
\* exhaustion, each with one release
C4_Witness ==
    /\ \E s \in Sessions :
          pc[s] = "cancelled" /\ acquires[s] = 1 /\ releases[s] = 1
    /\ \E s \in Sessions :
          pc[s] \in {"failed", "completed"} /\ releases[s] = 1

\* ---- C5 ----
\* C5 as stated: no session is admitted twice and every session in a
\* terminal state (Completed, Failed, Cancelled) was admitted exactly once.
C5_AdmittedBeforeAnyTerminal ==
    \A s \in Sessions :
        /\ acquires[s] <= 1
        /\ s \in Ended => acquires[s] = 1

\* C5 amended: no session is admitted twice; a session that is Completed or
\* Failed was admitted exactly once; a session ends without admission only
\* by being cancelled while it waits for a slot, and it ends Cancelled.
C5_AdmittedUnlessCancelledWaiting ==
    [][\A s \in Sessions :
          /\ acquires'[s] <= 1
          /\ pc'[s] \in {"last_yield", "completed", "failed"}
                => acquires'[s] = 1
          /\ (s \notin Ended /\ pc'[s] \in {"completed", "failed", "cancelled"}
                /\ acquires'[s] = 0)
                => (pc[s] = "waiting" /\ pc'[s] = "cancelled")]_vars

\* one session ended Cancelled without admission, another ended after it
\* was admitted
C5_Witness ==
    /\ \E s \in Sessions : pc[s] = "cancelled" /\ acquires[s] = 0
    /\ \E s \in Sessions : s \in Ended /\ acquires[s] = 1

\* ---- C6 ----
\* C6: free permits plus sessions holding a slot equals the capacity in
\* every reachable state, and the free permits never exceed the capacity.
\* A slot is held by the sessions inside the guarded body and by the waiters
\* to which release() has already handed the permit.
C6_PermitsConserved ==
    /\ sem_value + Cardinality(InBody) + Cardinality(sem_woken) = MAX_INFLIGHT
    /\ sem_value >= 0
    /\ sem_value <= MAX_INFLIGHT

\* a permit was released and handed to a waiter that has not resumed yet
C6_Witness ==
    /\ sem_woken # {}
    /\ \E s \in Sessions : releases[s] = 1

\* ---- C7 ----
\* C7 (scenario A): with capacity 2 the first two requests are admitted in
\* the step in which they arrive; a third request that arrives while both
\* are still in the guarded body waits, and the queue length is 1 for as
\* long as it waits; it is admitted only after one of the first two has
\* released its slot, it is admitted eventually, and once it no longer waits
\* the queue length is 0.
C7_ScenarioA ==
    /\ [](MAX_INFLIGHT = 2 =>
            /\ \A s \in {1, 2} : pc[s] # "idle" => acquires[s] = 1
            /\ (REQ_TOTAL = 3 /\ {1, 2} \subseteq InBody)
                  => /\ pc[3] = "waiting"
                     /\ 3 \notin sem_woken
                     /\ INFLIGHT = 2
            /\ (REQ_TOTAL = 3 /\ pc[3] = "waiting") => QUEUE_LENGTH = 1
            /\ acquires[3] = 1 => \E s \in {1, 2} : releases[s] = 1
            /\ (REQ_TOTAL = 3 /\ pc[3] # "waiting") => QUEUE_LENGTH = 0)
    /\ (MAX_INFLIGHT = 2 /\ pc[3] = "waiting") ~> (acquires[3] = 1)

\* the third request has waited behind the first two, one of them has
\* finished and handed its permit to the third, the queue length is still 1
C7_Witness ==
    /\ MAX_INFLIGHT = 2
    /\ REQ_TOTAL = 3
    /\ pc[3] = "waiting"
    /\ 3 \in sem_woken
    /\ QUEUE_LENGTH = 1
    /\ \E s \in {1, 2} : releases[s] = 1 /\ pc[s] = "completed"
    /\ \E s \in {1, 2} : s \in InBody

\* ---- C8 ----
\* C8 (scenario D): without cancellation and with finite engine sequences,
\* under weak fairness of every ready session, every request that waits for
\* admission is eventually admitted and every request that arrived
\* eventually completes; with capacity 1 at most one session is in the
\* guarded body at a time, and of two admitted sessions one has released
\* its slot.
C8_AllAdmittedAllComplete ==
    /\ \A s \in Sessions : (pc[s] = "waiting") ~> (acquires[s] = 1)
    /\ \A s \in Sessions : (pc[s] # "idle") ~> (pc[s] = "completed")
    /\ [](MAX_INFLIGHT = 1 =>
            /\ Cardinality(InBody) <= 1
            /\ INFLIGHT <= 1
            /\ \A s, t \in Sessions :
                  (s # t /\ acquires[s] = 1 /\ acquires[t] = 1)
                      => (releases[s] = 1 \/ releases[t] = 1))

\* capacity 1: the first request has completed and handed its permit to the
\* second, which waited behind it
C8_Witness ==
    /\ MAX_INFLIGHT = 1
    /\ pc[1] = "completed"
    /\ pc[2] = "waiting"
    /\ 2 \in sem_woken

\* ---- C9 ----
\* C9 (scenario B): the step in which the engine raises in an admitted
\* session ends the call with INTERNAL, adds exactly 1 to the failure
\* counter, takes exactly 1 from the in-flight gauge, and leaves the queue
\* length and the state of every other session as they were.
C9_EngineErrorEffects ==
    [][\A s \in Sessions :
          (pc[s] = "running" /\ pc'[s] = "failed")
              => /\ status'[s] = "INTERNAL"
                 /\ REQ_FAILED' = REQ_FAILED + 1
                 /\ INFLIGHT' = INFLIGHT - 1
                 /\ QUEUE_LENGTH' = QUEUE_LENGTH
                 /\ admission_queue' = admission_queue
                 /\ \A t \in Sessions \ {s} :
                       /\ pc'[t] = pc[t]
                       /\ status'[t] = status[t]
                       /\ full_text'[t] = full_text[t]
                       /\ last_len'[t] = last_len[t]
                       /\ first_token'[t] = first_token[t]
                       /\ emitted'[t] = emitted[t]
                       /\ reply'[t] = reply[t]]_vars

\* a StreamGenerate call failed after one delta had been delivered, while
\* another request was waiting for a slot
C9_Witness ==
    \E s \in Sessions :
        /\ pc[s] = "failed"
        /\ status[s] = "INTERNAL"
        /\ Len(emitted[s]) = 1
        /\ REQ_FAILED = 1
        /\ QUEUE_LENGTH = 1

\* ---- C10 ----
\* C10 (scenario C): the step in which the caller cancels a StreamGenerate
\* session that is in the guarded body and has delivered a delta (awaiting
\* the engine or suspended at the yield of a delta) takes 1 from the
\* in-flight gauge and leaves the failure counter alone, and a cancelled
\* session emits nothing more.
C10_CancelMidStream ==
    [][\A s \in Sessions :
          /\ (/\ kind[s] = "StreamGenerate"
              /\ pc[s] \in {"running", "yielding"}
              /\ Len(emitted[s]) >= 1
              /\ status[s] = "none"
              /\ status'[s] = "CANCELLED")
                => /\ INFLIGHT' = INFLIGHT - 1
                   /\ REQ_FAILED' = REQ_FAILED
          /\ status[s] = "CANCELLED" => emitted'[s] = emitted[s]]_vars

\* ---- C11 ----
\* sessions that terminated with an error
FailedSessions == {s \in Sessions : pc[s] = "failed"}

\* C11: before and after every step the failure counter equals the number of
\* sessions that ended Failed; a step raises it by one exactly when it takes
\* one session to Failed, and a step in which a session ends Cancelled or
\* Completed leaves it alone.
C11_FailureCounterCountsFailed ==
    [][/\ REQ_FAILED = Cardinality(FailedSessions)
       /\ REQ_FAILED' = Cardinality(FailedSessions')
       /\ \A s \in Sessions :
             /\ (pc[s] # "failed" /\ pc'[s] = "failed")
                   => REQ_FAILED' = REQ_FAILED + 1
             /\ (status[s] = "none" /\ status'[s] \in {"CANCELLED", "OK"})
                   => REQ_FAILED' = REQ_FAILED
             /\ (pc[s] # pc'[s] /\ pc'[s] \in {"cancelled", "completed"})
                   => REQ_FAILED' = REQ_FAILED]_vars

\* one call failed, one was cancelled and one completed, and the failure
\* counter stands at one
C11_Witness ==
    /\ REQ_FAILED = 1
    /\ \E s \in Sessions : pc[s] = "failed" /\ status[s] = "INTERNAL"
    /\ \E s \in Sessions : pc[s] = "cancelled" /\ status[s] = "CANCELLED"
    /\ \E s \in Sessions : pc[s] = "completed" /\ status[s] = "OK"

\* ---- C12 ----
RECURSIVE NonFinalText(_)
\* the concatenation of the text of the messages with is_last = False
NonFinalText(msgs) ==
    IF msgs = <<>> THEN <<>>
    ELSE (IF Head(msgs).is_last THEN <<>> ELSE Head(msgs).text)
             \o NonFinalText(Tail(msgs))

\* the text of every snapshot with outputs extends the text of every earlier
\* snapshot with outputs
Cumulative(seq) ==
    \A i, j \in 1..Len(seq) :
        (i < j /\ seq[i].outputs /\ seq[j].outputs)
            => IsPrefix(seq[i].text, seq[j].text)

\* a Generate call and a StreamGenerate call that both consumed the whole
\* sequence and completed
BothCompleted(g, t) ==
    /\ kind[g] = "Generate" /\ pc[g] = "completed"
    /\ kind[t] = "StreamGenerate" /\ pc[t] = "completed"

\* C12 as stated: whatever sequence of snapshots the engine yields to both
\* operations, the non-final deltas of StreamGenerate concatenate to the text
\* returned by Generate.
C12_RoundTripAnySequence ==
    \A g, t \in Sessions :
        BothCompleted(g, t) => NonFinalText(emitted[t]) = reply[g]

\* C12 amended: when the engine's sequence is cumulative (each text extends
\* the texts before it), the non-final deltas of StreamGenerate concatenate
\* to the text returned by Generate for the same sequence.
C12_RoundTripCumulative ==
    \A g, t \in Sessions :
        (Cumulative(script) /\ BothCompleted(g, t))
            => NonFinalText(emitted[t]) = reply[g]

\* both calls completed on a sequence that grew twice: two deltas were
\* streamed and Generate returned the full text
C12_Witness ==
    \E g, t \in Sessions :
        /\ BothCompleted(g, t)
        /\ Cumulative(script)
        /\ Len(script) = 2
        /\ Len(emitted[t]) = 3
        /\ Len(reply[g]) = 2

\* ---- C13 ----
\* positions of the messages with is_last = True in a stream
LastMarkers(msgs) == {i \in 1..Len(msgs) : msgs[i].is_last}

\* at most one message has is_last = True, it is the last message emitted
\* and its text is empty
MarkerAtEnd(msgs) ==
    /\ LastMarkers(msgs) \subseteq {Len(msgs)}
    /\ \A i \in LastMarkers(msgs) : msgs[i].text = <<>>

StreamSessions == {s \in Sessions : kind[s] = "StreamGenerate"}

\* C13 as stated: a StreamGenerate session that completed emitted exactly one
\* is_last message, empty and last, after messages that all had is_last
\* False; a session that ended Failed or Cancelled emitted no is_last message.
C13_EndMarkerOnlyOnCompletion ==
    \A s \in StreamSessions :
        /\ pc[s] = "completed"
              => MarkerAtEnd(emitted[s]) /\ LastMarkers(emitted[s]) # {}
        /\ pc[s] \in {"failed", "cancelled"} => LastMarkers(emitted[s]) = {}

\* C13 amended: a stream never holds more than one is_last message, which is
\* empty and last; a session that completed emitted it, a session that ended
\* Failed did not, and a session that ended Cancelled emitted it only when
\* the cancellation arrived while the end marker was being handed over.
C13_EndMarkerUnlessCancelledAtMarker ==
    [][\A s \in StreamSessions :
          /\ MarkerAtEnd(emitted[s]) /\ MarkerAtEnd(emitted'[s])
          /\ pc'[s] = "completed" => LastMarkers(emitted'[s]) # {}
          /\ pc'[s] = "failed" => LastMarkers(emitted'[s]) = {}
          /\ (pc[s] # "cancelled" /\ pc'[s] = "cancelled"
                 /\ LastMarkers(emitted'[s]) # {})
                => pc[s] = "last_yield"
          /\ status'[s] = "CANCELLED" => emitted'[s] = emitted[s]]_vars

\* one stream completed with a delta followed by the end marker, another was
\* cancelled after a delta and never emitted the marker
C13_Witness ==
    \E s, t \in StreamSessions :
        /\ pc[s] = "completed"
        /\ Len(emitted[s]) = 2
        /\ LastMarkers(emitted[s]) = {2}
        /\ pc[t] = "cancelled"
        /\ Len(emitted[t]) = 1
        /\ LastMarkers(emitted[t]) = {}

\* ---- C14 ----
\* the length of the last snapshot for which a delta was emitted: the total
\* length of the deltas emitted so far
EmittedLen(s) == Len(NonFinalText(emitted[s]))

\* the step hands the next snapshot of the sequence to StreamGenerate call s
TakesSnapshot(s) ==
    /\ kind[s] = "StreamGenerate"
    /\ pc[s] = "running"
    /\ nsnaps'[s] = nsnaps[s] + 1

\* C14: when StreamGenerate is handed a snapshot, it emits one message
\* exactly when the snapshot carries outputs whose text is longer than the
\* last emitted snapshot; the message is a non-final delta holding the part of
\* the text beyond that length, which is not empty; otherwise it emits
\* nothing.
C14_DeltaExactlyOnGrowth ==
    [][\A s \in Sessions :
          TakesSnapshot(s) =>
              LET out == script[nsnaps[s] + 1]
              IN  IF out.outputs /\ Len(out.text) > EmittedLen(s)
                  THEN /\ Len(emitted'[s]) = Len(emitted[s]) + 1
                       /\ SubSeq(emitted'[s], 1, Len(emitted[s])) = emitted[s]
                       /\ emitted'[s][Len(emitted'[s])] =
                              [text |-> SubSeq(out.text, EmittedLen(s) + 1,
                                               Len(out.text)),
                               is_last |-> FALSE]
                       /\ emitted'[s][Len(emitted'[s])].text # <<>>
                  ELSE emitted'[s] = emitted[s]]_vars

\* a second delta of one character was emitted for a snapshot of length two
C14_Witness ==
    \E s \in StreamSessions :
        /\ pc[s] = "yielding"
        /\ nsnaps[s] = 2
        /\ emitted[s] = <<Token(<<"a">>, FALSE), Token(<<"a">>, FALSE)>>
        /\ Len(script[2].text) = 2

\* ---- C15 ----
\* the snapshot carries outputs whose text is not empty
HasText(out) == out.outputs /\ out.text # <<>>

\* the step hands call s the first snapshot of the sequence that has text
TakesFirstText(s) ==
    /\ pc[s] = "running"
    /\ nsnaps'[s] = nsnaps[s] + 1
    /\ HasText(script[nsnaps[s] + 1])
    /\ \A i \in 1..nsnaps[s] : ~HasText(script[i])

\* C15: in Generate and in StreamGenerate the histogram receives one
\* observation in the step that hands a session its first snapshot with
\* non-empty text, stamped with the time of that step, and none in any other
\* step: not for later snapshots, and not for a session whose snapshots so far
\* had no text, however it ends.
C15_FirstOutputRecordedOnce ==
    [][/\ TTFT_HIST' =
            TTFT_HIST + Cardinality({s \in Sessions : TakesFirstText(s)})
       /\ \A s \in Sessions :
             IF TakesFirstText(s)
             THEN first_at[s] = -1 /\ first_at'[s] = now
             ELSE first_at'[s] \in {first_at[s], -1}]_vars

\* both a Generate and a StreamGenerate call consumed two snapshots with
\* text and each recorded one observation
C15_Witness ==
    /\ TTFT_HIST = 2
    /\ Len(script) = 2 /\ HasText(script[1]) /\ HasText(script[2])
    /\ \E g, t \in Sessions : BothCompleted(g, t)

\* ---- C16 ----
\* the call of session s is between its start and its terminal state
Live(s) == pc[s] # "idle" /\ status[s] = "none"

\* C16: on a clock that never runs backwards, t0 is the time at which the
\* call started and stays so while the call waits for admission and runs;
\* the first-output time is read at or after t0; and the step that takes the
\* session to its terminal state happens at or after the first-output time.
C16_StartFirstOutputCompletionOrdered ==
    [][\A s \in Sessions :
          /\ (pc[s] = "idle" /\ pc'[s] # "idle") => t0'[s] = now
          /\ (Live(s) /\ Live(s)') => t0'[s] = t0[s]
          /\ (Live(s) /\ first_at[s] = -1 /\ first_at'[s] # -1)
                => t0[s] <= first_at'[s] /\ first_at'[s] = now
          /\ (Live(s) /\ first_at[s] # -1)
                => t0[s] <= first_at[s] /\ first_at[s] <= now
          /\ (Live(s) /\ ~Live(s)' /\ first_at[s] # -1)
                => t0[s] <= first_at[s] /\ first_at[s] <= now']_vars

\* a call that started at time 0 has read its first-output time at time 1
\* and is still running at time 2
C16_Witness ==
    \E s \in Sessions :
        /\ acquires[s] = 1
        /\ pc[s] = "running"
        /\ t0[s] = 0
        /\ first_at[s] = 1
        /\ now = 2

\* ---- C17 ----
\* sessions whose iteration of self.engine.generate(...) has started and has
\* neither ended nor been closed by an exception raised into it
EngineInvocations ==
    {s \in Sessions : pc[s] \in {"running", "yielding", "abandoned"}}

\* C17: the step in which the caller cancels a session whose engine
\* invocation is in progress ends that invocation, and the engine hands no
\* further snapshot to a session that reached Cancelled.
C17_CancelStopsEngine ==
    [][\A s \in Sessions :
          /\ (s \in EngineInvocations /\ status[s] = "none"
                 /\ status'[s] = "CANCELLED")
                => s \notin EngineInvocations'
          /\ status[s] = "CANCELLED" => nsnaps'[s] <= nsnaps[s]]_vars

\* ---- C18 ----
\* C18: a request waiting for a slot leaves the waiting state only by
\* entering the guarded body with a permit that was handed to it, or by
\* caller cancellation, in which case it ends Cancelled; while every slot is
\* held by a session in the body it is not admitted; and the step in which
\* it leaves the waiting state never fails it or counts a failure.
C18_WaitEndsByGrantOrCancel ==
    [][\A s \in Sessions :
          pc[s] = "waiting" =>
              /\ pc'[s] \in {"waiting", "running", "cancelled"}
              /\ pc'[s] = "running"
                    => /\ s \in sem_woken
                       /\ Cardinality(InBody) < MAX_INFLIGHT
                       /\ acquires'[s] = acquires[s] + 1
              /\ pc'[s] = "cancelled" => status'[s] = "CANCELLED"
              /\ pc'[s] = "waiting" => status'[s] = "none"
              /\ pc'[s] # "waiting" => REQ_FAILED' = REQ_FAILED]_vars

\* a request is still waiting, with no permit handed to it, while every
\* slot is held and a session in the body has taken two snapshots
C18_Witness ==
    \E s, t \in Sessions :
        /\ pc[s] = "waiting"
        /\ s \notin sem_woken
        /\ Cardinality(InBody) = MAX_INFLIGHT
        /\ t \in InBody
        /\ nsnaps[t] >= 2

\* ---- C19 ----
\* no call has been cancelled so far
NoCancellation == \A s \in Sessions : status[s] # "CANCELLED"

\* s requested admission before t: calls are numbered in the order in which
\* they reach admission_guard
ArrivedBefore(s, t) == s < t /\ pc[s] # "idle" /\ pc[t] # "idle"

RECURSIVE LastText(_)
\* the text of the last snapshot of the sequence that carries outputs, the
\* empty text when none does
LastText(seq) ==
    IF seq = <<>> THEN <<>>
    ELSE IF seq[Len(seq)].outputs THEN seq[Len(seq)].text
    ELSE LastText(SubSeq(seq, 1, Len(seq) - 1))

\* C20: a Generate call that completed, which it does when the engine's
\* sequence is exhausted, replied with the text of the last snapshot of the
\* whole sequence that carried outputs (the empty text when none did); a
\* Generate call that has not completed has sent no reply.
C20_GenerateRepliesLastText ==
    \A s \in Sessions :
        kind[s] = "Generate" =>
            IF pc[s] = "completed"
            THEN reply[s] = LastText(script)
            ELSE reply[s] = NoReply

\* Generate replied with the one-character text of the first snapshot after
\* a second snapshot without outputs
C20_Witness ==
    \E s \in Sessions :
        /\ kind[s] = "Generate"
        /\ pc[s] = "completed"
        /\ Len(script) = 2
        /\ Len(script[1].text) = 1
        /\ script[2] = NoOutputs
        /\ reply[s] = script[1].text

\* ---- C21 ----
\* C21: the monitor task is always either querying the engine or sleeping,
\* it never ends; a failed status query is followed by a sleep and then by
\* the next query; and the engine is queried again and again for ever.
C21_MonitorNeverStops ==
    /\ [](mon_pc \in {"querying", "sleeping"})
    /\ [][mon_last' = "failed" /\ mon_last' # mon_last
             => mon_pc' = "sleeping"]_vars
    /\ (mon_pc = "sleeping" /\ mon_last = "failed") ~> (mon_pc = "querying")
    /\ []<>(mon_pc = "querying") /\ []<>(mon_pc = "sleeping")

\* the monitor is querying the engine again after a query that failed
C21_Witness ==
    /\ mon_pc = "querying"
    /\ mon_last = "failed"

\* ---- C22 ----
\* session s has given back the slot it acquired and is not counted by the
\* in-flight gauge
SlotGivenBack(s) ==
    /\ releases[s] = acquires[s]
    /\ s \notin InBody
    /\ INFLIGHT = Cardinality(InBody)

\* C22: on the error path of a call that was admitted, when the handler
\* increments the failure counter, and again when it returns the error
\* response, the in-flight gauge has already been decremented and the
\* admission slot has already been released; the failure is counted before
\* the response is returned.
C22_CleanupBeforeFailureCounted ==
    [][\A s \in Sessions :
          /\ (pc[s] # pc'[s] /\ REQ_FAILED' # REQ_FAILED)
                => acquires[s] = 1 /\ SlotGivenBack(s)
          /\ (status[s] = "none" /\ status'[s] = "INTERNAL")
                => /\ acquires[s] = 1 /\ SlotGivenBack(s)
                   /\ REQ_FAILED = Cardinality(FailedSessions) + 1
                   /\ REQ_FAILED' = REQ_FAILED]_vars

\* a handler is about to return the error response: the failure is counted,
\* the gauge is back at zero and the permit is with the next waiter
C22_Witness ==
    \E s, t \in Sessions :
        /\ pc[s] = "abort"
        /\ REQ_FAILED = 1
        /\ INFLIGHT = 0
        /\ releases[s] = 1
        /\ pc[t] = "waiting"
        /\ t \in sem_woken

\* ---- C23 ----
\* C23: the sampling parameters of every session whose engine invocation is
\* in progress have max_tokens >= 1 and a temperature above zero, whatever
\* max_new_tokens and temperature the request carried.
C23_SamplingParamsInRange ==
    \A s \in EngineInvocations :
        /\ params[s][1].max_tokens >= 1
        /\ Positive(params[s][1].temperature)

\* ---- C24 ----
\* permits that no session in the body holds: the semaphore's value plus the
\* permits handed to waiters that have not resumed yet
FreePermits == sem_value + Cardinality(sem_woken)

\* the step cancels session s while it is suspended in acquire()
CancelledWhileWaiting(s) == pc[s] = "waiting" /\ pc'[s] = "cancelled"

\* C24 (as stated): a request cancelled while it waits for a slot leaves the
\* semaphore's value, every session's acquisitions and releases, the
\* in-flight gauge, the failure counter and the sessions in the body as they
\* were.
C24_CancelWaitingKeepsValue ==
    [][\A s \in Sessions :
          CancelledWhileWaiting(s) =>
              /\ sem_value' = sem_value
              /\ acquires' = acquires /\ releases' = releases
              /\ INFLIGHT' = INFLIGHT /\ REQ_FAILED' = REQ_FAILED
              /\ InBody' = InBody]_vars

\* C24 (amended): a request cancelled while it waits for a slot never
\* acquires or releases one; the permits not held by a session in the body
\* (the semaphore's value plus the permits handed to waiters), the in-flight
\* gauge and the failure counter are the same after the cancellation as
\* before it, and the sessions in the body and their slots are unaffected.
C24_CancelWaitingKeepsSlots ==
    [][\A s \in Sessions :
          CancelledWhileWaiting(s) =>
              /\ FreePermits' = FreePermits
              /\ acquires' = acquires /\ releases' = releases
              /\ acquires'[s] = 0
              /\ INFLIGHT' = INFLIGHT /\ REQ_FAILED' = REQ_FAILED
              /\ InBody' = InBody]_vars

\* a request was cancelled before it ever acquired a slot, and the single
\* permit, given back by a session that finished, is with another waiter
C24_Witness ==
    \E s, t, u \in Sessions :
        /\ MAX_INFLIGHT = 1
        /\ pc[s] = "cancelled" /\ acquires[s] = 0 /\ releases[s] = 0
        /\ pc[t] = "completed" /\ releases[t] = 1
        /\ pc[u] = "waiting" /\ u \in sem_woken
        /\ sem_value = 0 /\ INFLIGHT = 0 /\ REQ_FAILED = 0

\* ---- C25 ----
\* StreamGenerate calls whose frame, and with it last_len, exists
StreamFrames ==
    {s \in StreamSessions :
        pc[s] \in {"waiting", "running", "yielding", "abandoned", "last_yield"}}

\* lengths of the texts of the snapshots handed to call s so far
SeenLengths(s) ==
    {Len(script[i].text) : i \in {j \in 1..nsnaps[s] : script[j].outputs}}

\* the length of the longest snapshot handed to call s so far
LongestSeen(s) ==
    IF SeenLengths(s) = {} THEN 0
    ELSE CHOOSE n \in SeenLengths(s) : \A m \in SeenLengths(s) : m <= n

\* C25: in a StreamGenerate session last_len always equals the total length
\* of the deltas emitted so far and the length of the longest snapshot seen
\* so far; it never decreases; and a snapshot that is not longer than
\* last_len changes neither last_len nor the emitted output.
C25_LastLenIsLongestSeen ==
    /\ [](\A s \in StreamFrames :
            /\ last_len[s] = EmittedLen(s)
            /\ last_len[s] = LongestSeen(s))
    /\ [][\A s \in Sessions :
            /\ (s \in StreamFrames /\ s \in StreamFrames')
                  => last_len'[s] >= last_len[s]
            /\ (TakesSnapshot(s) /\
                    (script[nsnaps[s] + 1].outputs
                        => Len(script[nsnaps[s] + 1].text) <= last_len[s]))
                  => /\ last_len'[s] = last_len[s]
                     /\ emitted'[s] = emitted[s]]_vars

\* after a snapshot of length two the call was handed one of length one,
\* which is shorter than last_len
C25_Witness ==
    \E s \in StreamFrames :
        /\ pc[s] = "running"
        /\ nsnaps[s] = 2
        /\ Len(script[1].text) = 2 /\ script[2].outputs
        /\ Len(script[2].text) = 1
        /\ last_len[s] = 2
        /\ Len(emitted[s]) = 1

\* ---- C26 ----
\* sessions that hold an admission slot
SlotHolders == {s \in Sessions : acquires[s] > releases[s]}

\* C26: in a StreamGenerate session that leaves the engine loop normally,
\* at the step that emits the end-of-stream marker the session has already
\* decremented the in-flight gauge and released its slot; and while a delta
\* is being handed to the caller the session holds its slot and is counted
\* by the gauge (gauge and free permits match the slots held whenever no
\* handler is between two statements of its exit).
C26_MarkerAfterSlotReleased ==
    /\ [][\A s \in Sessions :
            (LastMarkers(emitted[s]) = {} /\ LastMarkers(emitted'[s]) # {})
                => /\ acquires[s] = 1 /\ releases[s] = 1
                   /\ s \notin SlotHolders
                   /\ INFLIGHT = Cardinality(SlotHolders)
                   /\ FreePermits = MAX_INFLIGHT - Cardinality(SlotHolders)
                   /\ INFLIGHT' = INFLIGHT /\ releases' = releases]_vars
    /\ [](\A s \in Sessions :
            pc[s] = "yielding"
                => /\ kind[s] = "StreamGenerate"
                   /\ s \in SlotHolders
                   /\ LastMarkers(emitted[s]) = {}
                   /\ INFLIGHT >= 1
                   /\ FreePermits <= MAX_INFLIGHT - 1
                   /\ NoneOnExitPath
                         => /\ INFLIGHT = Cardinality(SlotHolders)
                            /\ FreePermits =
                                  MAX_INFLIGHT - Cardinality(SlotHolders))

\* the end marker is out after one delta, the slot has passed to the other
\* call, which is handing a delta to its caller
C26_Witness ==
    \E s, t \in Sessions :
        /\ MAX_INFLIGHT = 1
        /\ pc[s] = "last_yield"
        /\ Len(emitted[s]) = 2
        /\ releases[s] = 1
        /\ pc[t] = "yielding"
        /\ acquires[t] = 1 /\ releases[t] = 0
        /\ INFLIGHT = 1

\* ---- C27 ----
\* C27: every request waiting for a slot has its item in admission_queue,
\* and in the step in which a session acquires the semaphore the queue holds
\* at least one item when get_nowait runs: a session admitted after waiting
\* finds an item and removes it, a session admitted on arrival removes the
\* item it has just put, so the queue is never found empty.
C27_GetNowaitFindsItem ==
    /\ [](admission_queue >= Cardinality(Waiting))
    /\ [][\A s \in Sessions :
            acquires'[s] = acquires[s] + 1 =>
                IF pc[s] = "waiting"
                THEN /\ admission_queue >= 1
                     /\ admission_queue' = admission_queue - 1
                ELSE admission_queue' = admission_queue]_vars

\* with one slot, the first call completed, the second was cancelled before
\* it acquired, and the third holds the slot; one item is left in the queue
C27_Witness ==
    /\ MAX_INFLIGHT = 1
    /\ pc[1] = "completed"
    /\ pc[2] = "cancelled" /\ acquires[2] = 0
    /\ pc[3] = "running" /\ acquires[3] = 1
    /\ admission_queue = 1

\* ---- C28 ----
\* C28: whenever every session is at a suspension point (or has not started,
\* or has ended), the queue-length gauge equals the size of admission_queue
\* and the in-flight gauge equals the number of sessions inside the body of
\* admission_guard, generators abandoned at a yield included.
C28_GaugesMatchAtSuspension ==
    /\ QUEUE_LENGTH = admission_queue
    /\ INFLIGHT = Cardinality(InBody)

\* with one slot: an abandoned generator still inside the body, a request
\* cancelled before it acquired, and a third request waiting
C28_Witness ==
    /\ MAX_INFLIGHT = 1
    /\ pc[1] = "abandoned"
    /\ pc[2] = "cancelled" /\ acquires[2] = 0
    /\ pc[3] = "waiting"
    /\ admission_queue = 2
    /\ QUEUE_LENGTH = 2
    /\ INFLIGHT = 1

====
